---- MODULE Spec2Model ----
(***************************************************************************)
(* YouTube Tag Correlation Analyzer: src/src/main.cpp, and the older copy  *)
(* of the program kept in src/resources/delete/main.cpp.  The two share    *)
(* split, the heap analysis, the scan of the hash-table analysis and the   *)
(* menu loop; they differ in the ingestion, in the output of the           *)
(* hash-table analysis, in the menu and in the benchmark, which only the   *)
(* first has.                                                              *)
(*                                                                         *)
(* A std::string is a sequence of one-character strings.  A double is an   *)
(* exact rational [n, d] in lowest terms with d > 0: the numeric fields of *)
(* the modelled CSV rows are short decimal integers, so every quotient the *)
(* program forms is a rational; NaN and the infinities are outside the     *)
(* model.  A std::unordered_map is a function whose DOMAIN is the set of   *)
(* keys inserted so far.                                                   *)
(***************************************************************************)
EXTENDS Integers, Sequences, FiniteSets, TLC

VARIABLES
    program,       \* which of the two programs runs
    pc,            \* position of main: "start", "loop" (at while (running)),
                   \* "prompt" (menu printed, at cin >> choice), "returned",
                   \* "aborted" (ended by an uncaught exception)
    exitCode,      \* value main returned (-1 while it is running)
    videos,        \* main's vector<Video> videos
    selectedTags,  \* main's vector<string> selectedTags
    tagsInput,     \* the line case 1 read in the iteration just completed
    running,       \* main's bool running
    lastAction,    \* what the loop iteration just completed did
    calls,         \* the analyze* invocations made by that iteration
    heapPushed,    \* pairs pushed into the heap by the last analyzeWithHeap
    heapOut,       \* lines printed by the last analyzeWithHeap
    tagRatios,     \* tagRatios of the last analyzeWithHashTable
    divisions,     \* the sizes the last analyzeWithHashTable divided by
    hashOut,       \* lines printed by the last analyzeWithHashTable
    elapsed,       \* duration printed by the last single analysis
    bench          \* what the last compareDataStructures measured and printed

vars == <<program, pc, exitCode, videos, selectedTags, tagsInput, running,
          lastAction, calls, heapPushed, heapOut, tagRatios, divisions,
          hashOut, elapsed, bench>>

----------------------------------------------------------------------------
(* Bounds of the model.                                                    *)

\* data rows in the data/ folder, over all files
MaxLines == 2
\* characters typed at the "Enter tags" prompt
MaxInputLen == 4
\* largest duration (ms) a timed run can measure
MaxDur == 1

----------------------------------------------------------------------------
(* Program constants.                                                      *)

\* for (int i = 0; i < 10 && !heap.empty(); ++i)
TopK == 10
\* const int runs = 3;
runs == 3
\* if (fields.size() < 16) continue;
MinFields == 16
\* if (fields.size() < 9) continue;   (the older copy)
OldMinFields == 9

MainProgram == "src/main.cpp"
OldProgram == "resources/delete/main.cpp"

----------------------------------------------------------------------------
(* Exact rationals standing for double.                                    *)

RECURSIVE Gcd(_, _)
Gcd(a, b) == IF b = 0 THEN a ELSE Gcd(b, a % b)

Abs(x) == IF x < 0 THEN -x ELSE x

\* the rational n/d (d # 0) in lowest terms with a positive denominator
Rat(n, d) ==
    LET g == Gcd(Abs(n), Abs(d))
        s == IF d < 0 THEN -1 ELSE 1
    IN  [n |-> s * (n \div g), d |-> s * (d \div g)]

RZero == Rat(0, 1)
RInt(i) == Rat(i, 1)
RAdd(x, y) == Rat(x.n * y.d + y.n * x.d, x.d * y.d)
RMul(x, y) == Rat(x.n * y.n, x.d * y.d)
RDiv(x, y) == Rat(x.n * y.d, x.d * y.n)
RLess(x, y) == x.n * y.d < y.n * x.d

RECURSIVE RSum(_)
RSum(s) == IF s = <<>> THEN RZero ELSE RAdd(s[1], RSum(Tail(s)))

----------------------------------------------------------------------------
(* Sequence helpers.                                                       *)

RECURSIVE Concat(_)
Concat(ss) == IF ss = <<>> THEN <<>> ELSE ss[1] \o Concat(Tail(ss))

Range(s) == {s[i] : i \in DOMAIN s}

SeqsUpTo(S, n) == UNION {[1..k -> S] : k \in 0..n}

----------------------------------------------------------------------------
(* String utilities.                                                       *)

\* tag.find(selTag) != string::npos
Find(tag, selTag) ==
    \E p \in 0..(Len(tag) - Len(selTag)) :
        SubSeq(tag, p + 1, p + Len(selTag)) = selTag

RECURSIVE SplitFrom_KeepEmpty(_, _, _, _)
\* split without the if (!item.empty()) test: every item getline reads is kept
SplitFrom_KeepEmpty(s, delim, item, elems) ==
    IF s = <<>>
    THEN IF item # <<>> THEN Append(elems, item) ELSE elems
    ELSE IF s[1] = delim
         THEN SplitFrom_KeepEmpty(Tail(s), delim, <<>>, Append(elems, item))
         ELSE SplitFrom_KeepEmpty(Tail(s), delim, Append(item, s[1]), elems)

\* split: getline(ss, item, delim) in a loop, empty items discarded
RECURSIVE SplitFrom(_, _, _, _)
SplitFrom(s, delim, item, elems) ==
    IF s = <<>>
    THEN IF item # <<>> THEN Append(elems, item) ELSE elems
    ELSE IF s[1] = delim
         THEN SplitFrom(Tail(s), delim, <<>>,
                        IF item # <<>> THEN Append(elems, item) ELSE elems)
         ELSE SplitFrom(Tail(s), delim, Append(item, s[1]), elems)

split(s, delim) == SplitFrom(s, delim, <<>>, <<>>)

\* parseCSVLine: a quote toggles inQuotes and is dropped, a comma outside
\* quotes ends the field
RECURSIVE ParseFrom(_, _, _, _)
ParseFrom(line, result, current, inQuotes) ==
    IF line = <<>>
    THEN Append(result, current)
    ELSE LET c == line[1] IN
         IF c = "\""
         THEN ParseFrom(Tail(line), result, current, ~inQuotes)
         ELSE IF c = "," /\ ~inQuotes
              THEN ParseFrom(Tail(line), Append(result, current), <<>>, inQuotes)
              ELSE ParseFrom(Tail(line), result, Append(current, c), inQuotes)

parseCSVLine(line) == ParseFrom(line, <<>>, <<>>, FALSE)

Digits == <<"0", "1", "2", "3", "4", "5", "6", "7", "8", "9">>
IsDigit(c) == c \in Range(Digits)
DigitVal(c) == (CHOOSE i \in DOMAIN Digits : Digits[i] = c) - 1

RECURSIVE DigitPrefix(_, _, _)
\* value of the longest digit prefix of s (acc so far, n digits read)
DigitPrefix(s, acc, n) ==
    IF s # <<>> /\ IsDigit(s[1])
    THEN DigitPrefix(Tail(s), 10 * acc + DigitVal(s[1]), n + 1)
    ELSE [val |-> acc, ndigits |-> n]

\* std::stod on a field of sign and digit characters: an optional sign, then
\* the longest digit prefix; std::invalid_argument when there is no digit
stod(s) ==
    LET signed == s # <<>> /\ s[1] \in {"-", "+"}
        body   == IF signed THEN Tail(s) ELSE s
        p      == DigitPrefix(body, 0, 0)
    IN  IF p.ndigits = 0
        THEN [throws |-> TRUE, val |-> RZero]
        ELSE [throws |-> FALSE,
              val |-> RInt(IF signed /\ s[1] = "-" THEN -p.val ELSE p.val)]

----------------------------------------------------------------------------
(* Ingestion.                                                              *)

\* ratio = (views == 0.0) ? 0.0 : likes / views
RatioOf(views, likes) == IF views = RZero THEN RZero ELSE RDiv(likes, views)

\* one iteration of the while (getline(file, line)) loop of loadSingleDataset:
\* the records the row appends to videos (none when the row is skipped)
LoadRow(line) ==
    IF line = <<>> THEN <<>>
    ELSE LET fields == parseCSVLine(line) IN
         IF Len(fields) < MinFields THEN <<>>
         ELSE LET title   == fields[3]
                  tagsStr == fields[7]
                  v       == stod(fields[8])
                  l       == stod(fields[9])
              IN  IF v.throws \/ l.throws THEN <<>>
                  ELSE << [title |-> title,
                           tags  |-> split(tagsStr, "|"),
                           views |-> v.val,
                           likes |-> l.val,
                           ratio |-> RatioOf(v.val, l.val)] >>

\* loadSingleDataset on a file given by whether it opens and by its lines
\* after the header
loadSingleDataset(file) ==
    IF ~file.open THEN <<>>
    ELSE Concat([i \in DOMAIN file.lines |-> LoadRow(file.lines[i])])

\* loadAllDatasets on the directory entries in iteration order
loadAllDatasets(dir) ==
    Concat([i \in DOMAIN dir |->
              IF dir[i].ext = ".csv" THEN loadSingleDataset(dir[i]) ELSE <<>>])

\* the older copy's field split: getline(ss, field, ',') in a loop, every
\* field kept, quotes not interpreted
RECURSIVE FieldsFrom(_, _, _)
FieldsFrom(line, field, fields) ==
    IF line = <<>>
    THEN IF field # <<>> THEN Append(fields, field) ELSE fields
    ELSE IF line[1] = ","
         THEN FieldsFrom(Tail(line), <<>>, Append(fields, field))
         ELSE FieldsFrom(Tail(line), Append(field, line[1]), fields)

\* the older copy's loadDataset from the given lines on, videos loaded so far:
\* stod is not guarded, so a field it cannot parse ends the program
RECURSIVE LoadFrom(_, _)
LoadFrom(lines, loaded) ==
    IF lines = <<>> THEN [thrown |-> FALSE, videos |-> loaded]
    ELSE LET fields == FieldsFrom(lines[1], <<>>, <<>>) IN
         IF Len(fields) < OldMinFields THEN LoadFrom(Tail(lines), loaded)
         ELSE LET v == stod(fields[8])
                  l == stod(fields[9])
              IN  IF v.throws \/ l.throws
                  THEN [thrown |-> TRUE, videos |-> loaded]
                  ELSE LoadFrom(Tail(lines),
                          Append(loaded,
                                 [title |-> fields[3],
                                  tags  |-> split(fields[7], "|"),
                                  views |-> v.val,
                                  likes |-> l.val,
                                  ratio |-> RatioOf(v.val, l.val)]))

loadDataset(file) ==
    IF ~file.open THEN [thrown |-> FALSE, videos |-> <<>>]
    ELSE LoadFrom(file.lines, <<>>)

----------------------------------------------------------------------------
(* Heap strategy.                                                          *)

\* the comparison the other way round, which makes a min-heap
Compare_Reversed(a, b) == RLess(b.first, a.first)

\* Compare::operator(): a.first < b.first
Compare(a, b) == RLess(a.first, b.first)

\* the pairs pushed by the three nested loops of analyzeWithHeap, in order
HeapPushes(vs, selTags) ==
    Concat([i \in DOMAIN vs |->
      Concat([j \in DOMAIN vs[i].tags |->
        Concat([k \in DOMAIN selTags |->
          IF Find(vs[i].tags[j], selTags[k])
          THEN << [first |-> vs[i].ratio, second |-> vs[i].title] >>
          ELSE <<>>])])])

\* heap.top(): an element no other element compares greater than; which of
\* several equal-ratio elements comes first is left to the library
Tops(heap) == {e \in Range(heap) : \A o \in Range(heap) : ~Compare(e, o)}

\* heap.pop() of one copy of e
PopOne(heap, e) ==
    LET i == CHOOSE x \in DOMAIN heap : heap[x] = e
    IN  SubSeq(heap, 1, i - 1) \o SubSeq(heap, i + 1, Len(heap))

\* the sequences the output loop can print:
\* for (int i = 0; i < 10 && !heap.empty(); ++i) { top; pop; print }
RECURSIVE HeapPrints(_, _)
HeapPrints(heap, n) ==
    IF n = 0 \/ heap = <<>> THEN {<<>>}
    ELSE UNION { { <<[title |-> e.second, ratio |-> e.first]>> \o rest :
                     rest \in HeapPrints(PopOne(heap, e), n - 1) } :
                 e \in Tops(heap) }

----------------------------------------------------------------------------
(* Hash-table strategy.                                                    *)

\* the loops with tag == selTag in place of tag.find(selTag) != npos
HashAppends_Exact(vs, selTags) ==
    Concat([i \in DOMAIN vs |->
      Concat([j \in DOMAIN vs[i].tags |->
        Concat([k \in DOMAIN selTags |->
          IF vs[i].tags[j] = selTags[k]
          THEN << [key |-> selTags[k], ratio |-> vs[i].ratio] >>
          ELSE <<>>])])])

\* the (selTag, ratio) appends made by the three nested loops of
\* analyzeWithHashTable, in order
HashAppends(vs, selTags) ==
    Concat([i \in DOMAIN vs |->
      Concat([j \in DOMAIN vs[i].tags |->
        Concat([k \in DOMAIN selTags |->
          IF Find(vs[i].tags[j], selTags[k])
          THEN << [key |-> selTags[k], ratio |-> vs[i].ratio] >>
          ELSE <<>>])])])

RECURSIVE RatiosFor(_, _)
RatiosFor(appends, key) ==
    IF appends = <<>> THEN <<>>
    ELSE (IF appends[1].key = key THEN <<appends[1].ratio>> ELSE <<>>)
         \o RatiosFor(Tail(appends), key)

\* tagRatios after the loops: tagRatios[selTag].push_back(v.ratio) creates the
\* key on its first append
TagRatiosOf(vs, selTags) ==
    LET appends == HashAppends(vs, selTags)
        keys    == {appends[i].key : i \in DOMAIN appends}
    IN  [key \in keys |-> RatiosFor(appends, key)]

\* the sizes by which sum / entry.second.size() divides
DivisionsOf(ratios) ==
    {Len(ratios[key]) : key \in {k \in DOMAIN ratios : ratios[k] # <<>>}}

\* the averages without the division by the size
TagAveragesOf_SumOnly(ratios) ==
    [key \in DOMAIN ratios |-> RSum(ratios[key])]

\* tagAverages[entry.first] = entry.second.empty() ? 0.0 : sum / size
TagAveragesOf(ratios) ==
    [key \in DOMAIN ratios |->
        IF ratios[key] = <<>> THEN RZero
        ELSE RDiv(RSum(ratios[key]), RInt(Len(ratios[key])))]

\* the output loop without the else branch: a tag without data prints nothing
HashPrints_SkipMissing(selTags, tagAverages) ==
    LET HasData(tag) == tag \in DOMAIN tagAverages
        shown == SelectSeq(selTags, HasData)
    IN  [i \in DOMAIN shown |-> [tag |-> shown[i], avg |-> tagAverages[shown[i]]]]

\* the output loop printing tagAverages[tag] without the find test: a tag
\* without data prints the default 0
HashPrints_DefaultZero(selTags, tagAverages) ==
    [i \in DOMAIN selTags |->
        [tag |-> selTags[i],
         avg |-> IF selTags[i] \in DOMAIN tagAverages
                 THEN tagAverages[selTags[i]] ELSE RZero]]

\* the lines printed for the selected tags, in order
HashPrints(selTags, tagAverages) ==
    [i \in DOMAIN selTags |->
        IF selTags[i] \in DOMAIN tagAverages
        THEN [tag |-> selTags[i], avg |-> tagAverages[selTags[i]]]
        ELSE [tag |-> selTags[i], text |-> "(no data)"]]

\* the older copy's output loop: tagRatios[selTag] creates an empty entry for
\* a tag without a match, which prints "not found" and divides nothing
OldTagRatiosOf(vs, selTags) ==
    LET scanned == TagRatiosOf(vs, selTags) IN
    [key \in DOMAIN scanned \cup Range(selTags) |->
        IF key \in DOMAIN scanned THEN scanned[key] ELSE <<>>]

OldHashPrints(selTags, ratios) ==
    [i \in DOMAIN selTags |->
        IF ratios[selTags[i]] = <<>>
        THEN [tag |-> selTags[i], text |-> "not found"]
        ELSE [tag |-> selTags[i],
              avg |-> RDiv(RSum(ratios[selTags[i]]),
                           RInt(Len(ratios[selTags[i]])))]]

----------------------------------------------------------------------------
(* Benchmark harness.                                                      *)

RECURSIVE SumInts(_)
SumInts(s) == IF s = <<>> THEN 0 ELSE s[1] + SumInts(Tail(s))

\* the if / else if / else that prints the verdict
Verdict(avgHeap, avgHash) ==
    IF RLess(avgHeap, avgHash) THEN "Heap is faster"
    ELSE IF RLess(avgHash, avgHeap) THEN "Hash Table is faster"
    ELSE "Both performed equally"

\* the summary with the averages in integer arithmetic (no static_cast<double>)
Summary_IntDiv(heapTimes, hashTimes) ==
    LET totalHeap == heapTimes[1] + heapTimes[2] + heapTimes[3]
        totalHash == hashTimes[1] + hashTimes[2] + hashTimes[3]
        avgHeap   == RInt(totalHeap \div 3)
        avgHash   == RInt(totalHash \div 3)
    IN  [heapTimes |-> heapTimes, hashTimes |-> hashTimes,
         totalHeap |-> totalHeap, totalHash |-> totalHash,
         avgHeap |-> avgHeap, avgHash |-> avgHash,
         verdict |-> IF totalHeap \div 3 < totalHash \div 3 THEN "Heap is faster"
                     ELSE IF totalHash \div 3 < totalHeap \div 3
                          THEN "Hash Table is faster"
                          ELSE "Both performed equally"]

\* the summary of compareDataStructures when run i measures heapTimes[i] and
\* hashTimes[i]
Summary(heapTimes, hashTimes) ==
    LET totalHeap == SumInts([i \in 1..runs |-> heapTimes[i]])
        totalHash == SumInts([i \in 1..runs |-> hashTimes[i]])
        avgHeap   == RDiv(RInt(totalHeap), RInt(runs))
        avgHash   == RDiv(RInt(totalHash), RInt(runs))
    IN  [heapTimes |-> heapTimes, hashTimes |-> hashTimes,
         totalHeap |-> totalHeap, totalHash |-> totalHash,
         avgHeap |-> avgHeap, avgHash |-> avgHash,
         verdict |-> Verdict(avgHeap, avgHash)]

\* the calls made by the for (int i = 1; i <= runs; ++i) loop
BenchCalls(selTags) ==
    Concat([i \in 1..runs |->
        << [fn |-> "analyzeWithHeap", tags |-> selTags, showOutput |-> FALSE],
           [fn |-> "analyzeWithHashTable", tags |-> selTags, showOutput |-> FALSE] >>])

----------------------------------------------------------------------------
(* Inputs.                                                                 *)

RECURSIVE Join(_)
\* the fields of a CSV row joined by commas
Join(fields) ==
    IF Len(fields) = 1 THEN fields[1]
    ELSE fields[1] \o <<",">> \o Join(Tail(fields))

\* a row of nfields fields holding title, tags, views and likes in columns
\* 2, 6, 7 and 8 (from 0) and nothing elsewhere
Row(title, tags, viewsStr, likesStr, nfields) ==
    Join([i \in 1..nfields |->
            CASE i = 3 -> title
              [] i = 7 -> tags
              [] i = 8 -> viewsStr
              [] i = 9 -> likesStr
              [] OTHER -> <<>>])

\* rows a dataset file can hold
SampleLines ==
    { Row(<<"T">>, <<"a", "|", "a", "b">>, <<"2">>, <<"4">>, 16),
      Row(<<"\"", "U", ",", "V", "\"">>,
          <<"a", "a", "|", "a", "a", "|", "|", "a", "a", "|", "a", "a", "|", "a", "a">>,
          <<"0">>, <<"3">>, 16),
      Row(<<"W">>, <<"b", "a">>, <<"-", "2">>, <<"1">>, 16),
      Row(<<"W">>, <<"a">>, <<"x">>, <<"1">>, 16),
      Row(<<"W">>, <<"a">>, <<"1">>, <<>>, 16),
      Row(<<"W">>, <<"a">>, <<"1">>, <<"1">>, 15),
      <<>> }

FileKinds == {[ext |-> e, open |-> o] : e \in {".csv", ".txt"}, o \in BOOLEAN}

\* a data/ folder of two files holding the given lines between them
Dir(lines, cut, k1, k2) ==
    << [ext |-> k1.ext, open |-> k1.open, lines |-> SubSeq(lines, 1, cut)],
       [ext |-> k2.ext, open |-> k2.open,
        lines |-> SubSeq(lines, cut + 1, Len(lines))] >>

\* characters typed at the tag prompt
InputChars == {"a", ","}
TagInputs == SeqsUpTo(InputChars, MaxInputLen)

Durations == 0..MaxDur
RunTimes == [1..runs -> Durations]

NoBench == [verdict |-> "none"]

----------------------------------------------------------------------------
(* main.                                                                   *)

Init ==
    /\ program \in {MainProgram, OldProgram}
    /\ pc = "start"
    /\ exitCode = -1
    /\ videos = <<>>
    /\ selectedTags = <<>>
    /\ tagsInput = <<>>
    /\ running = FALSE
    /\ lastAction = "none"
    /\ calls = <<>>
    /\ heapPushed = <<>>
    /\ heapOut = <<>>
    /\ tagRatios = <<>>
    /\ divisions = {}
    /\ hashOut = <<>>
    /\ elapsed = -1
    /\ bench = NoBench

\* nothing of an analysis is on display
NoOutput ==
    /\ calls' = <<>>
    /\ heapPushed' = <<>>
    /\ heapOut' = <<>>
    /\ tagRatios' = <<>>
    /\ divisions' = {}
    /\ hashOut' = <<>>
    /\ elapsed' = -1
    /\ bench' = NoBench

\* main up to the menu loop: the folder check, loadAllDatasets, the empty
\* check, and the declarations of selectedTags and running
Startup ==
    /\ program = MainProgram
    /\ pc = "start"
    /\ \E folderExists \in BOOLEAN,
          lines \in SeqsUpTo(SampleLines, MaxLines),
          k1 \in FileKinds, k2 \in FileKinds :
         \E cut \in 0..Len(lines) :
            LET loaded == loadAllDatasets(Dir(lines, cut, k1, k2)) IN
            IF ~folderExists
            THEN /\ pc' = "returned" /\ exitCode' = 1
                 /\ UNCHANGED <<videos, running>>
            ELSE /\ videos' = loaded
                 /\ IF loaded = <<>>
                    THEN /\ pc' = "returned" /\ exitCode' = 1
                         /\ UNCHANGED running
                    ELSE /\ pc' = "loop" /\ running' = TRUE
                         /\ UNCHANGED exitCode
    /\ lastAction' = "startup"
    /\ NoOutput
    /\ UNCHANGED <<program, selectedTags, tagsInput>>

\* the older copy's main up to the menu loop: ensureDatasetExtracted,
\* loadDataset, the empty check, the declarations
OldStartup ==
    /\ program = OldProgram
    /\ pc = "start"
    /\ \E extracted \in BOOLEAN,
          lines \in SeqsUpTo(SampleLines, MaxLines),
          open \in BOOLEAN :
         LET loaded == loadDataset([open |-> open, lines |-> lines]) IN
         IF ~extracted
         THEN /\ pc' = "returned" /\ exitCode' = 1
              /\ UNCHANGED <<videos, running>>
         ELSE IF loaded.thrown
              THEN /\ pc' = "aborted"
                   /\ UNCHANGED <<exitCode, videos, running>>
              ELSE /\ videos' = loaded.videos
                   /\ IF loaded.videos = <<>>
                      THEN /\ pc' = "returned" /\ exitCode' = 1
                           /\ UNCHANGED running
                      ELSE /\ pc' = "loop" /\ running' = TRUE
                           /\ UNCHANGED exitCode
    /\ lastAction' = "startup"
    /\ NoOutput
    /\ UNCHANGED <<program, selectedTags, tagsInput>>

\* while (running): print the menu and wait for a choice, or leave the loop
\* and return 0
LoopTest ==
    /\ pc = "loop"
    /\ IF running
       THEN /\ pc' = "prompt" /\ UNCHANGED exitCode
       ELSE /\ pc' = "returned" /\ exitCode' = 0
    /\ lastAction' = "none"
    /\ tagsInput' = <<>>
    /\ NoOutput
    /\ UNCHANGED <<program, videos, selectedTags, running>>

\* case 1
SelectTags ==
    /\ pc = "prompt"
    /\ \E line \in TagInputs :
          /\ tagsInput' = line
          /\ selectedTags' = split(line, ",")
    /\ lastAction' = "select"
    /\ NoOutput
    /\ pc' = "loop"
    /\ UNCHANGED <<program, exitCode, videos, running>>

\* the "Select tags first." branch
Refuse ==
    /\ lastAction' = "refused"
    /\ NoOutput

\* analyzeWithHeap(videos, selectedTags) with output shown
AnalyzeWithHeap(vs, selTags) ==
    LET heap == HeapPushes(vs, selTags) IN
    /\ heapPushed' = heap
    /\ \E duration \in Durations : elapsed' = duration
    /\ \E printed \in HeapPrints(heap, TopK) : heapOut' = printed
    /\ calls' = << [fn |-> "analyzeWithHeap", tags |-> selTags,
                    showOutput |-> TRUE] >>
    /\ tagRatios' = <<>>
    /\ divisions' = {}
    /\ hashOut' = <<>>
    /\ bench' = NoBench

\* case 2 without the selectedTags.empty() test
RunHeapAnalysis_NoGuard ==
    /\ program = MainProgram
    /\ pc = "prompt"
    /\ AnalyzeWithHeap(videos, selectedTags)
    /\ lastAction' = "heap"
    /\ pc' = "loop"
    /\ tagsInput' = <<>>
    /\ UNCHANGED <<program, exitCode, videos, selectedTags, running>>

\* case 2
RunHeapAnalysis ==
    /\ program = MainProgram
    /\ pc = "prompt"
    /\ IF selectedTags = <<>>
       THEN Refuse
       ELSE /\ AnalyzeWithHeap(videos, selectedTags)
            /\ lastAction' = "heap"
    /\ pc' = "loop"
    /\ tagsInput' = <<>>
    /\ UNCHANGED <<program, exitCode, videos, selectedTags, running>>

\* analyzeWithHashTable(videos, selectedTags) with output shown
AnalyzeWithHashTable(vs, selTags) ==
    LET ratios == TagRatiosOf(vs, selTags) IN
    /\ tagRatios' = ratios
    /\ divisions' = DivisionsOf(ratios)
    /\ \E duration \in Durations : elapsed' = duration
    /\ hashOut' = HashPrints(selTags, TagAveragesOf(ratios))
    /\ calls' = << [fn |-> "analyzeWithHashTable", tags |-> selTags,
                    showOutput |-> TRUE] >>
    /\ heapPushed' = <<>>
    /\ heapOut' = <<>>
    /\ bench' = NoBench

\* case 3 with the selection cleared once the analysis has run
RunHashTableAnalysis_ClearsTags ==
    /\ program = MainProgram
    /\ pc = "prompt"
    /\ IF selectedTags = <<>>
       THEN Refuse
       ELSE /\ AnalyzeWithHashTable(videos, selectedTags)
            /\ lastAction' = "hash"
    /\ pc' = "loop"
    /\ tagsInput' = <<>>
    /\ selectedTags' = <<>>
    /\ UNCHANGED <<program, exitCode, videos, running>>

\* case 3
RunHashTableAnalysis ==
    /\ program = MainProgram
    /\ pc = "prompt"
    /\ IF selectedTags = <<>>
       THEN Refuse
       ELSE /\ AnalyzeWithHashTable(videos, selectedTags)
            /\ lastAction' = "hash"
    /\ pc' = "loop"
    /\ tagsInput' = <<>>
    /\ UNCHANGED <<program, exitCode, videos, selectedTags, running>>

\* compareDataStructures(videos, selectedTags) when run i measures
\* heapTimes[i] and hashTimes[i]; the timed runs print nothing
CompareDataStructures(vs, selTags, heapTimes, hashTimes) ==
    /\ bench' = Summary(heapTimes, hashTimes)
    /\ calls' = BenchCalls(selTags)
    /\ heapPushed' = <<>>
    /\ heapOut' = <<>>
    /\ tagRatios' = <<>>
    /\ divisions' = {}
    /\ hashOut' = <<>>
    /\ elapsed' = -1

\* case 4
CompareBoth ==
    /\ program = MainProgram
    /\ pc = "prompt"
    /\ IF selectedTags = <<>>
       THEN Refuse
       ELSE /\ \E heapTimes \in RunTimes, hashTimes \in RunTimes :
                 CompareDataStructures(videos, selectedTags, heapTimes, hashTimes)
            /\ lastAction' = "compare"
    /\ pc' = "loop"
    /\ tagsInput' = <<>>
    /\ UNCHANGED <<program, exitCode, videos, selectedTags, running>>

\* the older copy's analyzeWithHeap: the same scan and output loop, untimed
OldAnalyzeWithHeap(vs, selTags) ==
    LET heap == HeapPushes(vs, selTags) IN
    /\ heapPushed' = heap
    /\ \E printed \in HeapPrints(heap, TopK) : heapOut' = printed
    /\ calls' = << [fn |-> "analyzeWithHeap", tags |-> selTags,
                    showOutput |-> TRUE] >>
    /\ tagRatios' = <<>>
    /\ divisions' = {}
    /\ hashOut' = <<>>
    /\ elapsed' = -1
    /\ bench' = NoBench

\* the older copy's analyzeWithHashTable
OldAnalyzeWithHashTable(vs, selTags) ==
    LET ratios == OldTagRatiosOf(vs, selTags) IN
    /\ tagRatios' = ratios
    /\ divisions' = DivisionsOf(ratios)
    /\ hashOut' = OldHashPrints(selTags, ratios)
    /\ calls' = << [fn |-> "analyzeWithHashTable", tags |-> selTags,
                    showOutput |-> TRUE] >>
    /\ heapPushed' = <<>>
    /\ heapOut' = <<>>
    /\ elapsed' = -1
    /\ bench' = NoBench

\* the older copy's case 2: read dsChoice, refuse without tags, else dispatch
OldChooseStructure ==
    /\ program = OldProgram
    /\ pc = "prompt"
    /\ \E dsChoice \in 1..3 :
          IF selectedTags = <<>>
          THEN Refuse
          ELSE IF dsChoice = 1
               THEN /\ OldAnalyzeWithHeap(videos, selectedTags)
                    /\ lastAction' = "heap"
               ELSE IF dsChoice = 2
                    THEN /\ OldAnalyzeWithHashTable(videos, selectedTags)
                         /\ lastAction' = "hash"
                    ELSE /\ lastAction' = "invalid"
                         /\ NoOutput
    /\ pc' = "loop"
    /\ tagsInput' = <<>>
    /\ UNCHANGED <<program, exitCode, videos, selectedTags, running>>

\* case 5 (case 3 of the older copy)
Exit ==
    /\ pc = "prompt"
    /\ running' = FALSE
    /\ lastAction' = "exit"
    /\ NoOutput
    /\ pc' = "loop"
    /\ tagsInput' = <<>>
    /\ UNCHANGED <<program, exitCode, videos, selectedTags>>

\* default: any other number
InvalidChoice ==
    /\ pc = "prompt"
    /\ lastAction' = "invalid"
    /\ NoOutput
    /\ pc' = "loop"
    /\ tagsInput' = <<>>
    /\ UNCHANGED <<program, exitCode, videos, selectedTags, running>>

Next ==
    \/ Startup
    \/ OldStartup
    \/ LoopTest
    \/ SelectTags
    \/ RunHeapAnalysis
    \/ RunHashTableAnalysis
    \/ CompareBoth
    \/ OldChooseStructure
    \/ Exit
    \/ InvalidChoice

Spec == Init /\ [][Next]_vars

----------------------------------------------------------------------------
(* The properties.  MatchRule is the rule of the data model, stated apart   *)
(* from the program's string search.                                       *)

\* S is a substring of T
MatchRule(T, S) ==
    \E i \in 1..(Len(T) + 1), j \in 0..Len(T) : SubSeq(T, i, j) = S

\* the (record, raw tag) positions of the Record Store
TagPositions ==
    UNION { {<<i, j>> : j \in DOMAIN videos[i].tags} : i \in DOMAIN videos }

\* the (record, raw tag, selected tag) positions where MatchRule holds
MatchTriples ==
    { t \in TagPositions \X DOMAIN selectedTags :
        MatchRule(videos[t[1][1]].tags[t[1][2]], selectedTags[t[2]]) }

\* the (record, raw tag) positions whose raw tag contains S
MatchesOf(S) ==
    { q \in TagPositions : MatchRule(videos[q[1]].tags[q[2]], S) }

RECURSIVE SumRatios(_)
\* the sum of the records' ratios over a set of (record, raw tag) positions
SumRatios(Q) ==
    IF Q = {} THEN RZero
    ELSE LET q == CHOOSE x \in Q : TRUE
         IN  RAdd(videos[q[1]].ratio, SumRatios(Q \ {q}))

StoreRatios == {videos[i].ratio : i \in DOMAIN videos}

\* how many entries of the sequence s satisfy ratio = r
CountIn(s, r) == Cardinality({i \in DOMAIN s : s[i] = r})

\* the ratios accumulated under all keys of a tagRatios map
RatiosUnder(m, r) ==
    LET keys == DOMAIN m
        RECURSIVE Total(_)
        Total(K) == IF K = {} THEN 0
                    ELSE LET k == CHOOSE x \in K : TRUE
                         IN  CountIn(m[k], r) + Total(K \ {k})
    IN  Total(keys)

\* C1: a shown heap analysis prints exactly min(10, M) lines, M the number of
\* (record, raw tag, selected tag) matches; the printed ratios never increase;
\* no candidate left unprinted has a ratio above a printed one; every printed
\* line is the (title, ratio) of a record with a matching tag.
C1_TopKSelector ==
    lastAction = "heap" =>
        LET M == Cardinality(MatchTriples)
            cand(r) == Cardinality({t \in MatchTriples : videos[t[1][1]].ratio = r})
            emitted(r) == Cardinality({i \in DOMAIN heapOut : heapOut[i].ratio = r})
        IN  /\ Len(heapOut) = IF M < 10 THEN M ELSE 10
            /\ \A i \in 1..(Len(heapOut) - 1) :
                  ~RLess(heapOut[i].ratio, heapOut[i + 1].ratio)
            /\ \A r \in StoreRatios :
                  /\ emitted(r) <= cand(r)
                  /\ cand(r) > emitted(r) =>
                        \A i \in DOMAIN heapOut : ~RLess(heapOut[i].ratio, r)
            /\ \A i \in DOMAIN heapOut :
                  \E t \in MatchTriples :
                     /\ videos[t[1][1]].title = heapOut[i].title
                     /\ videos[t[1][1]].ratio = heapOut[i].ratio

\* more than ten candidates of two different ratios, ten lines printed
C1_Witness ==
    /\ lastAction = "heap"
    /\ Cardinality(MatchTriples) > 10
    /\ Len(heapOut) = 10
    /\ heapOut[1].ratio # heapOut[10].ratio

\* C2: a shown hash-table analysis prints one line per position of the
\* selected tags, in their order, each naming the tag at its position.
C2_OneEntryPerTag ==
    lastAction = "hash" =>
        /\ Len(hashOut) = Len(selectedTags)
        /\ \A i \in DOMAIN selectedTags : hashOut[i].tag = selectedTags[i]

\* the same tag selected twice, a line printed for each
C2_Witness ==
    /\ lastAction = "hash"
    /\ Len(selectedTags) = 2
    /\ selectedTags[1] = selectedTags[2]
    /\ Len(hashOut) = 2

\* C3: a selected tag contained in no raw tag gets the "(no data)" line and no
\* mean, and pushes nothing into the heap: the heap holds what the matching
\* selected tags alone would push, and nothing when no tag matches, in which
\* case nothing is printed.
C3_NoMatch ==
    LET unmatched(S) == MatchesOf(S) = {}
        matched(S)   == MatchesOf(S) # {}
    IN  /\ lastAction = "hash" =>
              \A i \in DOMAIN selectedTags :
                 unmatched(selectedTags[i]) =>
                    /\ DOMAIN hashOut[i] = {"tag", "text"}
                    /\ hashOut[i].text =
                          IF program = MainProgram THEN "(no data)" ELSE "not found"
        /\ lastAction = "heap" =>
              /\ Len(heapPushed) =
                    Cardinality({t \in MatchTriples : matched(selectedTags[t[2]])})
              /\ \A i \in DOMAIN heapPushed :
                    \E t \in MatchTriples :
                       /\ matched(selectedTags[t[2]])
                       /\ videos[t[1][1]].title = heapPushed[i].second
              /\ (\A k \in DOMAIN selectedTags : unmatched(selectedTags[k])) =>
                    heapPushed = <<>> /\ heapOut = <<>>

\* a matching and a non-matching tag selected, the second reported without data
C3_Witness ==
    /\ lastAction = "hash"
    /\ Len(selectedTags) = 2
    /\ MatchesOf(selectedTags[1]) # {}
    /\ MatchesOf(selectedTags[2]) = {}
    /\ "text" \in DOMAIN hashOut[2]

\* C4: both strategies take one entry per (record, raw tag, selected tag)
\* match: what the heap analysis pushed and what the hash-table analysis would
\* accumulate on the same input are the same ratios the same number of times,
\* and the other way round.
C4_SameEntries ==
    /\ lastAction = "heap" =>
          LET m == TagRatiosOf(videos, selectedTags) IN
          /\ Len(heapPushed) = Cardinality(MatchTriples)
          /\ \A r \in StoreRatios :
                Cardinality({i \in DOMAIN heapPushed : heapPushed[i].first = r})
                   = RatiosUnder(m, r)
    /\ lastAction = "hash" =>
          LET h == HeapPushes(videos, selectedTags) IN
          /\ \A r \in StoreRatios :
                /\ RatiosUnder(tagRatios, r)
                      = Cardinality({i \in DOMAIN h : h[i].first = r})
                /\ RatiosUnder(tagRatios, r)
                      = Cardinality({t \in MatchTriples : videos[t[1][1]].ratio = r})

\* one record with the tags a and ab, the tag a selected: two entries
C4_Witness ==
    /\ lastAction = "hash"
    /\ Len(videos) = 1
    /\ videos[1].tags = << <<"a">>, <<"a", "b">> >>
    /\ selectedTags = << <<"a">> >>
    /\ Len(tagRatios[<<"a">>]) = 2

\* C5: for a selected tag with a match the printed mean is the sum of the
\* ratios over the matching (record, raw tag) entries divided by their number,
\* and every size a mean was divided by is at least 1.
C5_Mean ==
    lastAction = "hash" =>
        /\ \A size \in divisions : size >= 1
        /\ \A i \in DOMAIN selectedTags :
              LET Q == MatchesOf(selectedTags[i]) IN
              Q # {} =>
                 /\ DOMAIN hashOut[i] = {"tag", "avg"}
                 /\ RMul(hashOut[i].avg, RInt(Cardinality(Q))) = SumRatios(Q)

\* a mean over entries of different ratios
C5_Witness ==
    /\ lastAction = "hash"
    /\ \E i \in DOMAIN selectedTags :
          /\ "avg" \in DOMAIN hashOut[i]
          /\ \E q1 \in MatchesOf(selectedTags[i]), q2 \in MatchesOf(selectedTags[i]) :
                videos[q1[1]].ratio # videos[q2[1]].ratio

\* C6: a benchmark calls each strategy three times with output off, its
\* averages are the sums of the three measured durations over 3, and the
\* verdict names the strategy with the strictly lower average, or a tie.
C6_Benchmark ==
    lastAction = "compare" =>
        LET sumHeap == bench.heapTimes[1] + bench.heapTimes[2] + bench.heapTimes[3]
            sumHash == bench.hashTimes[1] + bench.hashTimes[2] + bench.hashTimes[3]
            heapLower == bench.avgHeap.n * bench.avgHash.d < bench.avgHash.n * bench.avgHeap.d
            hashLower == bench.avgHash.n * bench.avgHeap.d < bench.avgHeap.n * bench.avgHash.d
            callsOf(fn) == {i \in DOMAIN calls : calls[i].fn = fn}
        IN  /\ Cardinality(callsOf("analyzeWithHeap")) = 3
            /\ Cardinality(callsOf("analyzeWithHashTable")) = 3
            /\ Len(calls) = 6
            /\ \A i \in DOMAIN calls : ~calls[i].showOutput
            /\ heapOut = <<>> /\ hashOut = <<>>
            /\ bench.avgHeap.n * 3 = sumHeap * bench.avgHeap.d
            /\ bench.avgHash.n * 3 = sumHash * bench.avgHash.d
            /\ bench.avgHeap.d > 0 /\ bench.avgHash.d > 0
            /\ (bench.verdict = "Heap is faster") <=> heapLower
            /\ (bench.verdict = "Hash Table is faster") <=> hashLower
            /\ (bench.verdict = "Both performed equally") <=> bench.avgHeap = bench.avgHash

\* equal averages from different runs, reported as a tie
C6_Witness ==
    /\ lastAction = "compare"
    /\ bench.heapTimes # bench.hashTimes
    /\ bench.totalHeap > 0
    /\ bench.verdict = "Both performed equally"

\* C7: no analysis and no benchmark is invoked with no tag selected; a query
\* or compare choice made with no tag selected runs nothing.
C7_NeverEmpty ==
    /\ \A i \in DOMAIN calls : calls[i].tags # <<>>
    /\ lastAction \in {"heap", "hash", "compare"} => selectedTags # <<>> /\ calls # <<>>
    /\ lastAction = "refused" =>
          /\ selectedTags = <<>>
          /\ calls = <<>>
          /\ heapPushed = <<>> /\ heapOut = <<>>
          /\ tagRatios = <<>> /\ hashOut = <<>>
          /\ bench = NoBench

\* a choice refused after the selection was emptied again
C7_Witness ==
    /\ lastAction = "refused"
    /\ selectedTags = <<>>
    /\ calls = <<>>

\* C8: every stored record has views >= 0 and likes >= 0, and its ratio is
\* likes/views when views > 0 and 0 otherwise, never negative; a row that
\* cannot be parsed is dropped, it does not end the program.
C8_NonNegative ==
    /\ pc # "aborted"
    /\ \A i \in DOMAIN videos :
          LET v == videos[i] IN
          /\ v.views.n >= 0
          /\ v.likes.n >= 0
          /\ v.ratio.n >= 0
          /\ v.ratio = IF v.views.n > 0 THEN RDiv(v.likes, v.views) ELSE RZero

\* the maximal comma-free, non-empty stretches of a line, as (first, last)
TokenSpans(line) ==
    { sp \in (1..Len(line)) \X (1..Len(line)) :
        /\ sp[1] <= sp[2]
        /\ \A k \in sp[1]..sp[2] : line[k] # ","
        /\ sp[1] = 1 \/ line[sp[1] - 1] = ","
        /\ sp[2] = Len(line) \/ line[sp[2] + 1] = "," }

\* tags are the stretches of line, in the order of the line
IsTokensOf(tags, line) ==
    /\ Len(tags) = Cardinality(TokenSpans(line))
    /\ \A sp \in TokenSpans(line) :
          LET k == 1 + Cardinality({o \in TokenSpans(line) : o[1] < sp[1]})
          IN  tags[k] = SubSeq(line, sp[1], sp[2])

\* C9: after startup no step changes the Record Store; only a "select tags"
\* step changes the selected tags, and to the tags of the line just entered,
\* whatever was selected before; every analysis called reads the tags selected
\* at that moment.
C9_Frame ==
    [][ /\ pc # "start" => videos' = videos
        /\ selectedTags' # selectedTags => pc = "prompt" /\ lastAction' = "select"
        /\ lastAction' = "select" => IsTokensOf(selectedTags', tagsInput')
        /\ lastAction' \in {"heap", "hash", "compare", "refused", "invalid", "exit"} =>
              selectedTags' = selectedTags
        /\ \A i \in DOMAIN calls' : calls'[i].tags = selectedTags
      ]_vars

\* a benchmark run on tags selected earlier
C9_Witness ==
    /\ lastAction = "compare"
    /\ Len(selectedTags) = 2
    /\ Len(videos) = 2

\* C10: every selected tag is non-empty and holds no comma, so no analysis is
\* called with an empty tag; a line of commas only, or an empty line, selects
\* nothing, and while nothing is selected no analysis runs.
C10_TagsNonEmpty ==
    /\ \A i \in DOMAIN selectedTags :
          /\ selectedTags[i] # <<>>
          /\ "," \notin Range(selectedTags[i])
    /\ \A i \in DOMAIN calls : \A k \in DOMAIN calls[i].tags : calls[i].tags[k] # <<>>
    /\ (lastAction = "select" /\ Range(tagsInput) \subseteq {","}) =>
          selectedTags = <<>>
    /\ selectedTags = <<>> => lastAction \notin {"heap", "hash", "compare"}

\* a line of commas was entered at the tag prompt and selected nothing
C10_Witness ==
    /\ lastAction = "select"
    /\ Len(tagsInput) >= 2
    /\ Range(tagsInput) = {","}
    /\ selectedTags = <<>>

====
